---- MODULE Spec2Model ----
(***************************************************************************)
(* A model of n8n-openapi-node: the compilation of an OpenAPI document     *)
(* into n8n INodeProperties (SchemaToINodeProperties.ts), the per-operation*)
(* assembly of fields (Parser.parseOperation / Parser.parseFields) and the *)
(* Parser object that runs the two collector passes (parser.ts).           *)
(*                                                                         *)
(* JavaScript values are records [k, p]: k is the typeof-like kind and p   *)
(* the printed payload, so that values of different kinds stay comparable. *)
(* A key that an object does not carry is the string "absent".             *)
(***************************************************************************)
EXTENDS Integers, Sequences, FiniteSets, TLC

VARIABLES pc, arg, ret, doc, doc0, addUriAfterOperation, parsers

vars == <<pc, arg, ret, doc, doc0, addUriAfterOperation, parsers>>

(***************************************************************************)
(* Bounds of the model.                                                    *)
(***************************************************************************)
MaxEnum == 2
MaxParams == 2
MaxProps == 2
MaxContent == 2
MaxOps == 2
MaxPasses == 2

\* F applied to the value of v, with v evaluated once (a local constant).
Const(v, F(_)) == CHOOSE x \in {F(w) : w \in {v}} : TRUE

(***************************************************************************)
(* JavaScript values.                                                      *)
(***************************************************************************)
Val(k, p) == [k |-> k, p |-> p]
UNDEF == Val("undefined", "")
JsTrue == Val("boolean", "true")
JsFalse == Val("boolean", "false")
Num0 == Val("number", "0")
Num1 == Val("number", "1")
StrEmpty == Val("string", "")
StrA == Val("string", "a")
StrB == Val("string", "b")
ObjA == Val("object", "{\"a\":1}")

\* ToBoolean: undefined, false, 0 and "" are the falsy values of the model.
Truthy(v) == v \notin {UNDEF, JsFalse, Num0, StrEmpty}

\* JSON.stringify(value, null, 2): the result is a string holding JSON text.
JSONstringify(v) ==
    CASE v.k = "string" -> Val("string", "\"" \o v.p \o "\"")
      [] v = ObjA -> Val("string", "{\n  \"a\": 1\n}")
      [] OTHER -> Val("string", v.p)

\* lodash.startCase on the strings the model uses.
startCase(s) ==
    CASE s = "session" -> "Session"
      [] s = "id" -> "Id"
      [] s = "name" -> "Name"
      [] s = "body" -> "Body"
      [] s = "operation" -> "Operation"
      [] s = "file" -> "File"
      [] s = "a" -> "A"
      [] s = "b" -> "B"
      [] s = "true" -> "True"
      [] s = "false" -> "False"
      [] s = "getPet" -> "Get Pet"
      [] s = "listPets" -> "List Pets"
      [] s = "{\"a\":1}" -> "A 1"
      [] OTHER -> s

(***************************************************************************)
(* INodeProperties.                                                        *)
(***************************************************************************)
ABSENT == "absent"
NoRouting == [target |-> "none", key |-> "", value |-> ""]
NoDisplayOptions == [resource |-> "", operation |-> ""]
VERBATIM == "={{ $value }}"
PARSEJSON == "={{ JSON.parse($value) }}"
BINARY == "={{ $binary[$value] }}"

\* An object with none of the keys set: every key reads as undefined.
EmptyProps ==
    [displayName |-> ABSENT, name |-> ABSENT, required |-> "undefined",
     type |-> "undefined", default |-> UNDEF, options |-> <<>>,
     routing |-> NoRouting, displayOptions |-> NoDisplayOptions,
     typeOptions |-> ABSENT]

\* combine(...sources): lodash.defaults({}, a, b) takes each key from the
\* first source where it is not undefined; a falsy 'required' is deleted.
combine(a, b) ==
    LET pick(x, y, undef) == IF x # undef THEN x ELSE y
        req == pick(a.required, b.required, "undefined")
    IN  [displayName |-> pick(a.displayName, b.displayName, ABSENT),
         name |-> pick(a.name, b.name, ABSENT),
         required |-> IF req = "true" THEN "true" ELSE ABSENT,
         type |-> pick(a.type, b.type, "undefined"),
         default |-> pick(a.default, b.default, UNDEF),
         options |-> pick(a.options, b.options, <<>>),
         routing |-> pick(a.routing, b.routing, NoRouting),
         displayOptions |-> pick(a.displayOptions, b.displayOptions, NoDisplayOptions),
         typeOptions |-> pick(a.typeOptions, b.typeOptions, ABSENT)]

(***************************************************************************)
(* Schemas. A schema is [type, enum, example, format]; type "undefined" is *)
(* a schema without a type, "null" a type the switch of fromSchema does not*)
(* list. The example is what SchemaExample.extractExample finds.           *)
(***************************************************************************)
Schema(type, enum, example, format) ==
    [type |-> type, enum |-> enum, example |-> example, format |-> format]

extractExample(schema) == schema.example

fromSchema(schema) ==
    LET ex == extractExample(schema)
        td == CASE schema.type = "boolean" ->
                     <<"boolean", IF ex # UNDEF THEN ex ELSE JsTrue>>
                [] schema.type \in {"string", "undefined"} ->
                     <<"string", IF ex # UNDEF THEN ex ELSE StrEmpty>>
                [] schema.type = "object" ->
                     <<"json", IF ex # UNDEF THEN JSONstringify(ex) ELSE Val("string", "{}")>>
                [] schema.type = "array" ->
                     <<"json", IF ex # UNDEF THEN JSONstringify(ex) ELSE Val("string", "[]")>>
                [] schema.type \in {"number", "integer"} ->
                     <<"number", IF ex # UNDEF THEN ex ELSE Num0>>
                [] OTHER -> <<"undefined", ex>>
        hasEnum == Len(schema.enum) > 0
    IN  [EmptyProps EXCEPT
           !.type = IF hasEnum THEN "options" ELSE td[1],
           !.options = IF hasEnum
                       THEN [i \in 1..Len(schema.enum) |->
                               [name |-> startCase(schema.enum[i].p),
                                value |-> schema.enum[i]]]
                       ELSE <<>>,
           !.default = IF hasEnum
                       THEN (IF Truthy(td[2]) THEN td[2] ELSE schema.enum[1])
                       ELSE td[2]]

(***************************************************************************)
(* Parameters: [name, in, required, example, schema]; required is "true",  *)
(* "false" or "undefined" (not declared).                                  *)
(* A call returns [error, fields]: error "" and the fields, or the message *)
(* of the Error thrown and no fields.                                      *)
(***************************************************************************)
Ok(fields) == [error |-> "", fields |-> fields]
Throw(msg) == [error |-> msg, fields |-> <<>>]
UnknownLocation == "Unknown parameter location"
NoContentFound == "No '/application\\/json.*/' or multipart/form-data content found"
SchemaTypeNotSupported(type) == "Request body schema type '" \o type \o "' not supported"
MultipartNeedsProperties == "Multipart form data schema must have properties"
ResourceNotFound == "Resource node not found"

Route(target, key, value) == [target |-> target, key |-> key, value |-> value]

\* fromParameter with the "header" case routed like the "query" case.
fromParameterHeaderAsQuery(parameter) ==
    LET fieldSchemaKeys == fromSchema(parameter.schema)
        fieldParameterKeys ==
            [EmptyProps EXCEPT !.displayName = startCase(parameter.name),
                               !.name = parameter.name,
                               !.required = parameter.required,
                               !.default = parameter.example]
        field == combine(fieldParameterKeys, fieldSchemaKeys)
    IN  CASE parameter.in \in {"query", "header"} ->
               Ok(<<[field EXCEPT !.routing = Route("qs", parameter.name, VERBATIM)]>>)
          [] parameter.in = "path" ->
               Ok(<<[field EXCEPT !.required = "true"]>>)
          [] OTHER -> Throw(UnknownLocation)

\* fromParameter without the 'required = true' of the "path" case.
fromParameterNoPathForce(parameter) ==
    LET fieldSchemaKeys == fromSchema(parameter.schema)
        fieldParameterKeys ==
            [EmptyProps EXCEPT !.displayName = startCase(parameter.name),
                               !.name = parameter.name,
                               !.required = parameter.required,
                               !.default = parameter.example]
        field == combine(fieldParameterKeys, fieldSchemaKeys)
    IN  CASE parameter.in = "query" ->
               Ok(<<[field EXCEPT !.routing = Route("qs", parameter.name, VERBATIM)]>>)
          [] parameter.in = "path" -> Ok(<<field>>)
          [] parameter.in = "header" ->
               Ok(<<[field EXCEPT !.routing = Route("headers", parameter.name, VERBATIM)]>>)
          [] OTHER -> Throw(UnknownLocation)

fromParameter(parameter) ==
    LET fieldSchemaKeys == fromSchema(parameter.schema)
        fieldParameterKeys ==
            [EmptyProps EXCEPT !.displayName = startCase(parameter.name),
                               !.name = parameter.name,
                               !.required = parameter.required,
                               !.default = parameter.example]
        field == combine(fieldParameterKeys, fieldSchemaKeys)
    IN  CASE parameter.in = "query" ->
               Ok(<<[field EXCEPT !.routing = Route("qs", parameter.name, VERBATIM)]>>)
          [] parameter.in = "path" ->
               Ok(<<[field EXCEPT !.required = "true"]>>)
          [] parameter.in = "header" ->
               Ok(<<[field EXCEPT !.routing = Route("headers", parameter.name, VERBATIM)]>>)
          [] OTHER -> Throw(UnknownLocation)

\* The loop of fromParameters: the first parameter that throws ends it.
RECURSIVE fromParametersFrom(_, _, _)
fromParametersFrom(parameters, i, fields) ==
    IF i > Len(parameters) THEN Ok(fields)
    ELSE LET r == fromParameter(parameters[i])
         IN  IF r.error # "" THEN r
             ELSE fromParametersFrom(parameters, i + 1, fields \o r.fields)

fromParameters(parameters) == fromParametersFrom(parameters, 1, <<>>)

fromSchemaProperty(name, property) ==
    combine([EmptyProps EXCEPT !.displayName = startCase(name), !.name = name],
            fromSchema(property))

(***************************************************************************)
(* Request bodies. A body is a sequence (the content map, in key order) of *)
(* [label, schema]. A label is the content-type string cut into chunks, so *)
(* that a regular expression search is a search among the chunks.          *)
(* A body schema is [type, items, hasProperties, properties, hasRequired,  *)
(* required]: items is <<>> or <<schema>>, properties a sequence of        *)
(* [name, schema] in key order, required the list of required names.       *)
(***************************************************************************)
MULTIPART == <<"multipart/form-data">>
APPJSON == "application/json"

\* /application\/json.*/.test(key): an unanchored search.
RegexpTest(label) == \E i \in 1..Len(label) : label[i] = APPJSON

\* findKey(obj, regexp): the value of the first key the regexp matches.
findKey(content) ==
    LET hits == {i \in 1..Len(content) : RegexpTest(content[i].label)}
    IN  IF hits = {} THEN <<>>
        ELSE <<content[CHOOSE i \in hits : \A j \in hits : i <= j]>>

includes(list, key) == \E i \in 1..Len(list) : list[i] = key

\* The property field routed verbatim whatever its type.
jsonPropertyFieldVerbatim(schema, prop) ==
    LET fieldPropertyKeys == fromSchemaProperty(prop.name, prop.schema)
        fieldDefaults ==
            [EmptyProps EXCEPT !.required =
                IF schema.hasRequired
                THEN (IF includes(schema.required, prop.name) THEN "true" ELSE "false")
                ELSE "undefined"]
        field == combine(fieldDefaults, fieldPropertyKeys)
    IN  [field EXCEPT !.routing = Route("body.key", prop.name, VERBATIM)]

\* The loop over schema.properties of the JSON branch.
jsonPropertyField(schema, prop) ==
    LET fieldPropertyKeys == fromSchemaProperty(prop.name, prop.schema)
        fieldDefaults ==
            [EmptyProps EXCEPT !.required =
                IF schema.hasRequired
                THEN (IF includes(schema.required, prop.name) THEN "true" ELSE "false")
                ELSE "undefined"]
        field == combine(fieldDefaults, fieldPropertyKeys)
    IN  [field EXCEPT !.routing =
            IF field.type = "json" THEN Route("body.key", prop.name, PARSEJSON)
            ELSE Route("body.key", prop.name, VERBATIM)]

\* The "body" field typed from the array schema itself, not from its items.
arrayBodyFieldOfArray(schema) ==
    LET fieldPropertyKeys ==
            fromSchemaProperty("body", Schema("array", <<>>, UNDEF, "none"))
        fieldDefaults ==
            [EmptyProps EXCEPT !.required = IF schema.hasRequired THEN "true" ELSE "false"]
        field == combine(fieldDefaults, fieldPropertyKeys)
    IN  [field EXCEPT !.routing = Route("body", "", PARSEJSON)]

\* The "array" branch: one field named "body", typed from the items schema.
arrayBodyField(schema) ==
    LET fieldPropertyKeys == fromSchemaProperty("body", schema.items[1])
        fieldDefaults ==
            [EmptyProps EXCEPT !.required = IF schema.hasRequired THEN "true" ELSE "false"]
        field == combine(fieldDefaults, fieldPropertyKeys)
    IN  [field EXCEPT !.routing = Route("body", "", PARSEJSON)]

fromJsonContent(schema) ==
    IF ~schema.hasProperties /\ schema.type # "object" /\ schema.type # "array"
    THEN Throw(SchemaTypeNotSupported(schema.type))
    ELSE Ok((IF schema.type = "array" /\ schema.items # <<>>
             THEN <<arrayBodyField(schema)>> ELSE <<>>)
            \o [i \in 1..Len(schema.properties) |->
                  jsonPropertyField(schema, schema.properties[i])])

multipartField(schema, prop) ==
    LET fieldPropertyKeys == fromSchemaProperty(prop.name, prop.schema)
        fieldDefaults ==
            [EmptyProps EXCEPT !.required =
                IF schema.hasRequired
                THEN (IF includes(schema.required, prop.name) THEN "true" ELSE "false")
                ELSE "undefined"]
        field == combine(fieldDefaults, fieldPropertyKeys)
    IN  IF prop.schema.format = "binary"
        THEN [field EXCEPT !.type = "string", !.typeOptions = "isFilePath",
                           !.routing = Route("body.key", prop.name, BINARY)]
        ELSE [field EXCEPT !.routing = Route("body.key", prop.name, VERBATIM)]

fromMultipartFormData(schema) ==
    IF ~schema.hasProperties THEN Throw(MultipartNeedsProperties)
    ELSE Ok([i \in 1..Len(schema.properties) |->
               multipartField(schema, schema.properties[i])])

\* body is <<>> (no request body) or <<content>>.
fromRequestBody(body) ==
    IF body = <<>> THEN Ok(<<>>)
    ELSE LET content == body[1]
             multipart == {i \in 1..Len(content) : content[i].label = MULTIPART}
             found == findKey(content)
         IN  IF multipart # {}
             THEN fromMultipartFormData(content[CHOOSE i \in multipart : TRUE].schema)
             ELSE IF found = <<>> THEN Throw(NoContentFound)
             ELSE fromJsonContent(found[1].schema)

(***************************************************************************)
(* Parser.parseFields and Parser.parseOperation.                           *)
(* An operation is [resource, operationId, summary, parameters,            *)
(* requestBody]; operationId is the identifier split at "_". A uri is a    *)
(* sequence of [ph, text]: literal text, or a {text} placeholder.          *)
(***************************************************************************)
sessionFirst(a, b) ==
    IF a.name = "session" THEN -1
    ELSE IF b.name = "session" THEN 1
    ELSE 0

\* Array.prototype.sort(sessionFirst): a stable insertion sort. x goes right
\* after the last element it does not compare below. With at most one field
\* named "session" sessionFirst is a consistent comparator and every stable
\* sort gives this result; with several, sessionFirst answers -1 both ways
\* and the order among them is the engine's: each goes to the front in turn,
\* as it does in V8's binary insertion sort of a short array.
insert(sorted, x) ==
    LET notBelow == {j \in 1..Len(sorted) : sessionFirst(x, sorted[j]) >= 0}
        k == IF notBelow = {} THEN 0
             ELSE CHOOSE j \in notBelow : \A i \in notBelow : i <= j
    IN  SubSeq(sorted, 1, k) \o <<x>> \o SubSeq(sorted, k + 1, Len(sorted))

RECURSIVE sortFrom(_, _, _)
sortFrom(fields, i, sorted) ==
    IF i > Len(fields) THEN sorted
    ELSE Const(insert(sorted, fields[i]), LAMBDA next : sortFrom(fields, i + 1, next))

\* The array left as it was: the sort forgotten.
sortSkipped(fields) == fields

sort(fields) == sortFrom(fields, 1, <<>>)

parseFields(resourceName, operationName, operation) ==
    LET displayOptions == [resource |-> resourceName, operation |-> operationName]
        withBody(parameterFields, bodyFields) ==
            IF parameterFields.error # "" THEN parameterFields
            ELSE IF bodyFields.error # "" THEN bodyFields
            ELSE Const(parameterFields.fields \o bodyFields.fields,
                       LAMBDA fields :
                         Ok(sort([i \in 1..Len(fields) |->
                                    [fields[i] EXCEPT !.displayOptions = displayOptions]])))
    IN  Const(fromParameters(operation.parameters),
              LAMBDA parameterFields :
                Const(fromRequestBody(operation.requestBody),
                      LAMBDA bodyFields : withBody(parameterFields, bodyFields)))

\* uri.replace(/{([^}]*)}/g, '{{$parameter["$1"]}}')
replaceToParameter(uri) ==
    [i \in 1..Len(uri) |->
        IF uri[i].ph THEN "{{$parameter[\"" \o uri[i].text \o "\"]}}" ELSE uri[i].text]

RECURSIVE concat(_)
concat(strings) ==
    IF strings = <<>> THEN "" ELSE Head(strings) \o concat(Tail(strings))

\* The uri as the string the document holds.
uriText(uri) ==
    concat([i \in 1..Len(uri) |->
              IF uri[i].ph THEN "{" \o uri[i].text \o "}" ELSE uri[i].text])

toUpperCase(method) ==
    CASE method = "get" -> "GET"
      [] method = "post" -> "POST"
      [] method = "put" -> "PUT"
      [] method = "delete" -> "DELETE"
      [] method = "patch" -> "PATCH"
      [] OTHER -> method

\* operationId.split('_').slice(1).join('_'), or the whole id when that is empty.
RECURSIVE join(_)
join(parts) ==
    IF parts = <<>> THEN ""
    ELSE IF Len(parts) = 1 THEN parts[1]
    ELSE parts[1] \o "_" \o join(Tail(parts))

operationIdOf(operation) ==
    LET rest == join(Tail(operation.operationId))
    IN  IF rest = "" THEN join(operation.operationId) ELSE rest

NoOption == [name |-> "", value |-> "", action |-> "", method |-> "", url |-> ""]

notice(resourceName, operationName, uri, method) ==
    [EmptyProps EXCEPT
       !.displayName = toUpperCase(method) \o " " \o uriText(uri),
       !.name = "operation",
       !.type = "notice",
       !.typeOptions = "theme:info",
       !.displayOptions = [resource |-> resourceName, operation |-> operationName],
       !.default = StrEmpty]

\* Returns [error, option, fields].
parseOperation(resourceName, operation, uri, method, addUri) ==
    LET operationName == startCase(operationIdOf(operation))
        option == [name |-> operationName,
                   value |-> operationName,
                   action |-> IF operation.summary # "" THEN operation.summary
                              ELSE operationName,
                   method |-> toUpperCase(method),
                   url |-> "=" \o concat(replaceToParameter(uri))]
    IN  Const(parseFields(resourceName, operationName, operation),
              LAMBDA fields :
                IF fields.error # ""
                THEN [error |-> fields.error, option |-> NoOption, fields |-> <<>>]
                ELSE [error |-> "", option |-> option,
                      fields |-> IF addUri
                                 THEN <<notice(resourceName, operationName, uri, method)>>
                                      \o fields.fields
                                 ELSE fields.fields])

(***************************************************************************)
(* The input sets of the checks.                                           *)
(***************************************************************************)
\* All sequences over S of length at most n.
RECURSIVE SeqsUpTo(_, _)
SeqsUpTo(S, n) ==
    IF n = 0 THEN {<<>>}
    ELSE LET shorter == SeqsUpTo(S, n - 1)
         IN  shorter \cup {Append(q, x) : q \in shorter, x \in S}

SchemaTypes ==
    {"boolean", "string", "undefined", "object", "array", "number", "integer", "null"}
EnumValues == {JsTrue, JsFalse, Num0, Num1, StrA, ObjA}
Examples == {UNDEF, StrB, JsFalse}
Schemas ==
    {Schema(t, e, x, "none") :
        t \in SchemaTypes, e \in SeqsUpTo(EnumValues, MaxEnum), x \in Examples}

StringSchema == Schema("string", <<>>, UNDEF, "none")
ParamSchemas ==
    {StringSchema,
     Schema("integer", <<>>, UNDEF, "none"),
     Schema("string", <<StrA, StrB>>, UNDEF, "none"),
     Schema("object", <<>>, ObjA, "none")}
Param(name, in, required, example, schema) ==
    [name |-> name, in |-> in, required |-> required, example |-> example,
     schema |-> schema]
Locations == {"query", "path", "header", "cookie"}
Parameters ==
    {Param(n, l, r, x, sc) :
        n \in {"session", "id"}, l \in Locations,
        r \in {"true", "false", "undefined"}, x \in {UNDEF, StrA}, sc \in ParamSchemas}

Names == {"session", "id", "name"}
DistinctNames(props) ==
    \A i, j \in 1..Len(props) : props[i].name = props[j].name => i = j
Prop(name, schema) == [name |-> name, schema |-> schema]
PropSchemas ==
    {StringSchema,
     Schema("boolean", <<>>, UNDEF, "none"),
     Schema("object", <<>>, UNDEF, "none")}
PropLists ==
    {q \in SeqsUpTo({Prop(n, sc) : n \in Names, sc \in PropSchemas}, MaxProps) :
        DistinctNames(q)}
BodySchema(type, items, hasProperties, properties, hasRequired, required) ==
    [type |-> type, items |-> items, hasProperties |-> hasProperties,
     properties |-> properties, hasRequired |-> hasRequired, required |-> required]
ItemSchemas ==
    {<<>>, <<StringSchema>>, <<Schema("string", <<>>, StrB, "none")>>,
     <<Schema("object", <<>>, UNDEF, "none")>>}
RequiredLists == {<<>>, <<"id">>, <<"id", "name">>}
BodySchemas ==
    {BodySchema(t, it, hp, IF hp THEN q ELSE <<>>, hr, IF hr THEN rq ELSE <<>>) :
        t \in {"object", "array", "string", "undefined"}, it \in ItemSchemas,
        hp \in BOOLEAN, q \in PropLists, hr \in BOOLEAN, rq \in RequiredLists}
Media(label, schema) == [label |-> label, schema |-> schema]
JsonBodies == {<<<<Media(<<APPJSON>>, sc)>>>> : sc \in BodySchemas}

\* Content maps for the choice of the content entry: few schemas, that tell
\* the entries apart, under every label.
Labels ==
    {MULTIPART, <<APPJSON>>, <<APPJSON, "; charset=utf-8">>, <<"application/xml">>,
     <<"text/x-", APPJSON>>}
ObjectOf(name) ==
    BodySchema("object", <<>>, TRUE, <<Prop(name, StringSchema)>>, FALSE, <<>>)
ContentSchemas ==
    {ObjectOf("id"), ObjectOf("name"),
     BodySchema("string", <<>>, FALSE, <<>>, FALSE, <<>>)}
DistinctLabels(content) ==
    \A i, j \in 1..Len(content) : content[i].label = content[j].label => i = j
Contents ==
    {c \in SeqsUpTo({Media(l, sc) : l \in Labels, sc \in ContentSchemas}, MaxContent) :
        c # <<>> /\ DistinctLabels(c)}
ContentBodies == {<<>>} \cup {<<c>> : c \in Contents}

Operation(resource, operationId, parameters, requestBody) ==
    [resource |-> resource, operationId |-> operationId, summary |-> "",
     parameters |-> parameters, requestBody |-> requestBody]
OpParameters ==
    {Param(n, l, "undefined", UNDEF, StringSchema) :
        n \in Names, l \in {"query", "path", "cookie"}}
OpPropLists ==
    {q \in SeqsUpTo({Prop(n, StringSchema) : n \in Names}, MaxProps) : DistinctNames(q)}
OpBodies ==
    {<<>>,
     <<<<Media(<<APPJSON>>, BodySchema("array", <<StringSchema>>, FALSE, <<>>, FALSE, <<>>))>>>>,
     <<<<Media(<<"application/xml">>, ObjectOf("id"))>>>>}
    \cup {<<<<Media(<<APPJSON>>, BodySchema("object", <<>>, TRUE, q, FALSE, <<>>))>>>> :
            q \in OpPropLists}
PetUri == <<[ph |-> FALSE, text |-> "/pets/"], [ph |-> TRUE, text |-> "id"]>>
OperationCalls ==
    {[resourceName |-> "Pet", operation |-> Operation("Pet", id, ps, b),
      uri |-> PetUri, method |-> "get", addUri |-> a] :
        id \in {<<"getPet">>, <<"pets", "getPet">>},
        ps \in SeqsUpTo(OpParameters, MaxParams), b \in OpBodies, a \in BOOLEAN}

(***************************************************************************)
(* Calls of the compiler's functions: the argument is drawn at the start,  *)
(* the call returns once.                                                  *)
(***************************************************************************)
NoCall == [error |-> "", fields |-> <<>>]
ParserIdle ==
    /\ doc = <<>>
    /\ doc0 = <<>>
    /\ addUriAfterOperation = TRUE
    /\ parsers = <<>>

InitSchema == pc = "start" /\ arg \in Schemas /\ ret = EmptyProps /\ ParserIdle
CallFromSchema ==
    /\ pc = "start"
    /\ pc' = "done"
    /\ ret' = fromSchema(arg)
    /\ UNCHANGED <<arg, doc, doc0, addUriAfterOperation, parsers>>
SpecSchema == InitSchema /\ [][CallFromSchema]_vars

InitParameter == pc = "start" /\ arg \in Parameters /\ ret = NoCall /\ ParserIdle
CallFromParameter ==
    /\ pc = "start"
    /\ pc' = "done"
    /\ ret' = fromParameter(arg)
    /\ UNCHANGED <<arg, doc, doc0, addUriAfterOperation, parsers>>
SpecParameter == InitParameter /\ [][CallFromParameter]_vars

InitBody == pc = "start" /\ arg \in JsonBodies /\ ret = NoCall /\ ParserIdle
InitContent == pc = "start" /\ arg \in ContentBodies /\ ret = NoCall /\ ParserIdle
CallFromRequestBody ==
    /\ pc = "start"
    /\ pc' = "done"
    /\ ret' = fromRequestBody(arg)
    /\ UNCHANGED <<arg, doc, doc0, addUriAfterOperation, parsers>>
SpecBody == InitBody /\ [][CallFromRequestBody]_vars
SpecContent == InitContent /\ [][CallFromRequestBody]_vars

InitOperation ==
    /\ pc = "start"
    /\ arg \in OperationCalls
    /\ ret = [error |-> "", option |-> NoOption, fields |-> <<>>]
    /\ ParserIdle
CallParseOperation ==
    /\ pc = "start"
    /\ pc' = "done"
    /\ ret' = parseOperation(arg.resourceName, arg.operation, arg.uri, arg.method,
                             arg.addUri)
    /\ UNCHANGED <<arg, doc, doc0, addUriAfterOperation, parsers>>
SpecOperation == InitOperation /\ [][CallParseOperation]_vars

(***************************************************************************)
(* The Parser of parser.ts. A document is the sequence of its operations   *)
(* in the walker's order; the i-th is served at PetUri with Methods[i].    *)
(* A parser is [resourceNode, operations, fields, passes, first, lastRead]:*)
(* resourceNode is <<>> while undefined; passes counts the process() calls,*)
(* first keeps what the first of them left, lastRead what the last read of *)
(* 'properties' returned since.                                            *)
(***************************************************************************)
Methods == <<"get", "post", "put", "delete", "patch">>
ParserIds == {"p1", "p2"}
NotRead == [error |-> "not read", fields |-> <<>>]

RECURSIVE resourcesOf(_, _, _)
resourcesOf(document, i, seen) ==
    IF i > Len(document) THEN seen
    ELSE resourcesOf(document, i + 1,
                     IF includes(seen, document[i].resource) THEN seen
                     ELSE Append(seen, document[i].resource))

\* ResourcePropertiesCollector: the "resource" selector of the resource names.
resourceSelector(document) ==
    LET names == resourcesOf(document, 1, <<>>)
    IN  [EmptyProps EXCEPT
           !.displayName = "Resource", !.name = "resource", !.type = "options",
           !.options = [i \in 1..Len(names) |->
                          [name |-> names[i], value |-> Val("string", names[i])]],
           !.default = StrEmpty]

\* OperationsCollector: every operation compiled with parseOperation, its
\* option filed under its resource and its fields appended to one list.
RECURSIVE collectFrom(_, _, _, _, _)
collectFrom(document, addUri, i, options, fields) ==
    IF i > Len(document)
    THEN [error |-> "", options |-> options, fields |-> fields]
    ELSE Const(parseOperation(document[i].resource, document[i], PetUri, Methods[i], addUri),
               LAMBDA r :
                 IF r.error # ""
                 THEN [error |-> r.error, options |-> <<>>, fields |-> <<>>]
                 ELSE Const(<<Append(options, [resource |-> document[i].resource,
                                                option |-> r.option]),
                              fields \o r.fields>>,
                            LAMBDA acc : collectFrom(document, addUri, i + 1, acc[1], acc[2])))

operationSelector(resource, options) ==
    LET own == SelectSeq(options, LAMBDA o : o.resource = resource)
    IN  [EmptyProps EXCEPT
           !.displayName = "Operation", !.name = "operation", !.type = "options",
           !.displayOptions = [resource |-> resource, operation |-> ""],
           !.options = [i \in 1..Len(own) |-> own[i].option],
           !.default = StrEmpty]

collectOperations(document, addUri) ==
    LET names == resourcesOf(document, 1, <<>>)
    IN  Const(collectFrom(document, addUri, 1, <<>>, <<>>),
              LAMBDA c :
                [error |-> c.error,
                 operations |-> IF c.error # "" THEN <<>>
                                ELSE [i \in 1..Len(names) |->
                                        operationSelector(names[i], c.options)],
                 fields |-> c.fields])

\* constructor
newParser ==
    [resourceNode |-> <<>>, operations |-> <<>>, fields |-> <<>>, passes |-> 0,
     first |-> <<>>, lastRead |-> NotRead]

\* get properties() without the flattened operation fields.
propertiesWithoutFields(parser) ==
    IF parser.resourceNode = <<>> THEN Throw(ResourceNotFound)
    ELSE Ok(parser.resourceNode \o parser.operations)

properties(parser) ==
    IF parser.resourceNode = <<>> THEN Throw(ResourceNotFound)
    ELSE Ok(parser.resourceNode \o parser.operations \o parser.fields)

\* parseResources()
parseResources(parser, document) ==
    [parser EXCEPT !.resourceNode = <<resourceSelector(document)>>]

\* parseOperations() adding the collector's lists to the parser's.
parseOperationsAppending(parser, document, addUri) ==
    Const(collectOperations(document, addUri),
          LAMBDA c :
            IF c.error # "" THEN parser
            ELSE [parser EXCEPT !.operations = @ \o c.operations,
                                !.fields = @ \o c.fields])

\* parseOperations(): a collector that throws leaves the parser as it is.
parseOperations(parser, document, addUri) ==
    Const(collectOperations(document, addUri),
          LAMBDA c :
            IF c.error # "" THEN parser
            ELSE [parser EXCEPT !.operations = c.operations, !.fields = c.fields])

\* process()
process(parser, document, addUri) ==
    Const(parseOperations(parseResources(parser, document), document, addUri),
          LAMBDA after :
            [after EXCEPT !.passes = @ + 1,
                          !.first = IF parser.passes = 0
                                    THEN <<<<after.resourceNode, after.operations,
                                             after.fields>>>>
                                    ELSE @,
                          !.lastRead = NotRead])

PipelineParameters ==
    {<<>>,
     <<Param("id", "path", "true", UNDEF, StringSchema),
       Param("session", "query", "undefined", UNDEF, StringSchema)>>,
     <<Param("id", "cookie", "undefined", UNDEF, StringSchema)>>}
PipelineBodies == {<<>>, <<<<Media(<<APPJSON>>, ObjectOf("name"))>>>>}
PipelineOperations ==
    {Operation(r, <<"pets", "getPet">>, ps, b) :
        r \in {"Pet", "Store"}, ps \in PipelineParameters, b \in PipelineBodies}
Documents == SeqsUpTo(PipelineOperations, MaxOps) \ {<<>>}

Init ==
    /\ pc = "idle"
    /\ arg = <<>>
    /\ ret = NoCall
    /\ doc \in Documents
    /\ doc0 = doc
    /\ addUriAfterOperation \in BOOLEAN
    /\ parsers = [p \in ParserIds |-> newParser]

Process(p) ==
    /\ parsers[p].passes < MaxPasses
    /\ parsers' = [parsers EXCEPT ![p] = process(@, doc, addUriAfterOperation)]
    /\ UNCHANGED <<pc, arg, ret, doc, doc0, addUriAfterOperation>>

ReadProperties(p) ==
    /\ parsers' = [parsers EXCEPT ![p].lastRead = properties(parsers[p])]
    /\ UNCHANGED <<pc, arg, ret, doc, doc0, addUriAfterOperation>>

Next == \E p \in ParserIds : Process(p) \/ ReadProperties(p)

Spec == Init /\ [][Next]_vars

(***************************************************************************)
(* The properties checked.                                                 *)
(***************************************************************************)
\* The fields of an operation in source declaration order: parameters, then
\* the request body's fields.
declaredFields(operation) ==
    fromParameters(operation.parameters).fields
        \o fromRequestBody(operation.requestBody).fields
ungrouped(fields) ==
    [i \in 1..Len(fields) |-> [fields[i] EXCEPT !.displayOptions = NoDisplayOptions]]
notSession(fields) == SelectSeq(fields, LAMBDA f : f.name # "session")
hasSession(fields) == \E i \in 1..Len(fields) : fields[i].name = "session"

\* C1 as claimed: when an operation compiles and one of its fields is named
\* "session", that field is at position 0 of the list parseOperation returns,
\* with the informational field enabled or not, and the other parameter and
\* body fields are in source declaration order.
C1_SessionAtPositionZero ==
    (pc = "done" /\ ret.error = "") =>
        /\ hasSession(ret.fields) => ret.fields[1].name = "session"
        /\ notSession(ungrouped(SelectSeq(ret.fields, LAMBDA f : f.type # "notice")))
              = notSession(declaredFields(arg.operation))

\* C1 amended: the field named "session" is first among the parameter and
\* body fields: position 0 without the informational field, position 1, right
\* after the informational field, with it; every field named "session" comes
\* before the others, which keep their source declaration order.
C1_SessionFirstAfterNotice ==
    (pc = "done" /\ ret.error = "") =>
        LET k == IF arg.addUri THEN 1 ELSE 0
            compiled == SubSeq(ret.fields, k + 1, Len(ret.fields))
            declared == declaredFields(arg.operation)
        IN  /\ arg.addUri => ret.fields[1].type = "notice"
            /\ Len(compiled) = Len(declared)
            /\ hasSession(declared) => compiled[1].name = "session"
            /\ \A i, j \in 1..Len(compiled) :
                  (compiled[i].name = "session" /\ compiled[j].name # "session") => i < j
            /\ notSession(ungrouped(compiled)) = notSession(declared)

\* A "session" declared last of three fields is moved behind the notice.
C1_Witness ==
    /\ pc = "done" /\ ret.error = "" /\ arg.addUri
    /\ Len(ret.fields) = 4
    /\ declaredFields(arg.operation)[3].name = "session"
    /\ declaredFields(arg.operation)[1].name = "id"
    /\ ret.fields[2].name = "session"
    /\ ret.fields[3].name = "id"

\* C2 as claimed: the names of the fields compiled for one operation
\* (parameter fields, body fields, informational field) are pairwise distinct.
C2_FieldNamesDistinct ==
    (pc = "done" /\ ret.error = "") =>
        \A i, j \in 1..Len(ret.fields) :
            ret.fields[i].name = ret.fields[j].name => i = j

\* C3: the field of a path parameter has required = true whatever the
\* document declares; the field of a query or header parameter carries
\* 'required' only when the document declares it true.
C3_PathAlwaysRequired ==
    pc = "done" =>
        /\ arg.in = "path" =>
              /\ ret.error = ""
              /\ Len(ret.fields) = 1
              /\ ret.fields[1].required = "true"
        /\ arg.in \in {"query", "header"} =>
              /\ ret.error = ""
              /\ Len(ret.fields) = 1
              /\ ret.fields[1].required # ABSENT =>
                    (arg.required = "true" /\ ret.fields[1].required = "true")

C3_Witness ==
    /\ pc = "done"
    /\ arg.in = "path"
    /\ arg.required = "false"
    /\ ret.fields[1].required = "true"

\* C10 as claimed: fromParameter attaches a routing directive for every
\* location: query and header keyed by the parameter name with the verbatim
\* value, path a path-substitution directive; any other location throws.
C10_RoutingForEveryLocation ==
    pc = "done" =>
        /\ arg.in = "query" =>
              (ret.error = "" /\ ret.fields[1].routing = Route("qs", arg.name, VERBATIM))
        /\ arg.in = "header" =>
              (ret.error = "" /\ ret.fields[1].routing = Route("headers", arg.name, VERBATIM))
        /\ arg.in = "path" => (ret.error = "" /\ ret.fields[1].routing # NoRouting)
        /\ arg.in \notin {"query", "header", "path"} =>
              (ret.error = UnknownLocation /\ ret.fields = <<>>)

\* C10 amended: query and header get their directive keyed by the parameter
\* name with the verbatim value; a path parameter's field gets no routing
\* directive (only required = true); any other location throws, no field.
C10_RoutingByLocation ==
    pc = "done" =>
        /\ arg.in = "query" =>
              (ret.error = "" /\ ret.fields[1].routing = Route("qs", arg.name, VERBATIM))
        /\ arg.in = "header" =>
              (ret.error = "" /\ ret.fields[1].routing = Route("headers", arg.name, VERBATIM))
        /\ arg.in = "path" =>
              /\ ret.error = ""
              /\ ret.fields[1].routing = NoRouting
              /\ ret.fields[1].required = "true"
        /\ arg.in \notin {"query", "header", "path"} =>
              (ret.error = UnknownLocation /\ ret.fields = <<>>)

C10_Witness ==
    /\ pc = "done"
    /\ arg.in = "path"
    /\ ret.error = ""
    /\ ret.fields[1].name = arg.name
    /\ ret.fields[1].routing = NoRouting

\* C6 as claimed: a schema with a non-empty enum, of any type, compiles to an
\* options field with one option per enum value, in order, carrying that
\* value; without an example its default is the first enum value.
C6_EnumDefaultIsFirstValue ==
    (pc = "done" /\ Len(arg.enum) > 0) =>
        /\ ret.type = "options"
        /\ Len(ret.options) = Len(arg.enum)
        /\ \A i \in 1..Len(arg.enum) : ret.options[i].value = arg.enum[i]
        /\ arg.example = UNDEF => ret.default = arg.enum[1]

\* The content of the body under check, and the schema of its JSON entry.
contentOf(body) == body[1]
jsonSchemaOf(body) == body[1][1].schema

\* C4 as claimed: of a request body, fromRequestBody takes the
\* multipart/form-data entry if there is one; otherwise the first entry whose
\* label begins with application/json; with neither it throws the
\* content-type error and returns no fields.
C4_ContentSelection ==
    (pc = "done" /\ arg # <<>>) =>
        LET content == contentOf(arg)
            multipart == {i \in 1..Len(content) : content[i].label = MULTIPART}
            family == {i \in 1..Len(content) : content[i].label[1] = APPJSON}
        IN  IF multipart # {}
            THEN ret = fromMultipartFormData(content[CHOOSE i \in multipart : TRUE].schema)
            ELSE IF family # {}
            THEN ret = fromJsonContent(
                         content[CHOOSE i \in family : \A j \in family : i <= j].schema)
            ELSE ret = Throw(NoContentFound)

isStringArray(schema) == schema.type = "array" /\ schema.items = <<StringSchema>>

\* C5 as claimed: a JSON body of type array with string items and no example
\* compiles to exactly one field, named "body", of type json with default
\* "[]", routed as the whole body, JSON-parsed.
C5_ArrayBodyIsJson ==
    (pc = "done" /\ isStringArray(jsonSchemaOf(arg))) =>
        /\ ret.error = ""
        /\ Len(ret.fields) = 1
        /\ ret.fields[1].name = "body"
        /\ ret.fields[1].type = "json"
        /\ ret.fields[1].default = Val("string", "[]")
        /\ ret.fields[1].routing = Route("body", "", PARSEJSON)

\* C5 amended: such a body compiles to a field named "body" first (the only
\* field unless the array schema also declares properties), typed from the
\* items schema: type string with default "", routed as the whole body,
\* JSON-parsed.
C5_ArrayBodyTypedFromItems ==
    (pc = "done" /\ isStringArray(jsonSchemaOf(arg))) =>
        /\ ret.error = ""
        /\ Len(ret.fields) = 1 + Len(jsonSchemaOf(arg).properties)
        /\ ret.fields[1].name = "body"
        /\ ret.fields[1].type = "string"
        /\ ret.fields[1].default = StrEmpty
        /\ ret.fields[1].routing = Route("body", "", PARSEJSON)

C5_Witness ==
    /\ pc = "done"
    /\ isStringArray(jsonSchemaOf(arg))
    /\ ~jsonSchemaOf(arg).hasProperties
    /\ Len(ret.fields) = 1
    /\ ret.fields[1].name = "body"
    /\ ret.fields[1].default = StrEmpty

\* What C7 says of the fields from position k + 1 on: one per declared
\* property, in order, required exactly when the name is in the required
\* list, routed to the body key of its name, JSON-parsed exactly when the
\* field's type is json.
propertyFieldsFrom(k, schema, fields) ==
    /\ Len(fields) = k + Len(schema.properties)
    /\ \A i \in 1..Len(schema.properties) :
          LET name == schema.properties[i].name
              f == fields[k + i]
          IN  /\ f.name = name
              /\ f.required = "true" <=>
                    (schema.hasRequired /\ includes(schema.required, name))
              /\ f.routing.target = "body.key"
              /\ f.routing.key = name
              /\ f.routing.value = IF f.type = "json" THEN PARSEJSON ELSE VERBATIM

\* C7 as claimed: a JSON body whose schema is an object or declares
\* properties compiles to exactly one field per declared property.
C7_OneFieldPerProperty ==
    (pc = "done"
       /\ (jsonSchemaOf(arg).type = "object" \/ jsonSchemaOf(arg).hasProperties)) =>
        /\ ret.error = ""
        /\ propertyFieldsFrom(0, jsonSchemaOf(arg), ret.fields)

\* C7 amended: one field per declared property, after the single "body"
\* field when the schema is also of type array with items.
C7_PropertyFieldsAfterArrayField ==
    (pc = "done"
       /\ (jsonSchemaOf(arg).type = "object" \/ jsonSchemaOf(arg).hasProperties)) =>
        /\ ret.error = ""
        /\ propertyFieldsFrom(
              IF jsonSchemaOf(arg).type = "array" /\ jsonSchemaOf(arg).items # <<>>
              THEN 1 ELSE 0,
              jsonSchemaOf(arg), ret.fields)

C7_Witness ==
    /\ pc = "done"
    /\ jsonSchemaOf(arg).type = "object"
    /\ jsonSchemaOf(arg).required = <<"id">>
    /\ Len(ret.fields) = 2
    /\ ret.fields[1].name = "id" /\ ret.fields[1].required = "true"
    /\ ret.fields[1].routing = Route("body.key", "id", VERBATIM)
    /\ ret.fields[2].name = "name" /\ ret.fields[2].required = ABSENT
    /\ ret.fields[2].type = "json"
    /\ ret.fields[2].routing = Route("body.key", "name", PARSEJSON)

view(parser) == <<parser.resourceNode, parser.operations, parser.fields>>

\* C8: after any number of process() calls a parser holds what its first
\* call left, two parsers of the same document hold the same, and the
\* document is the one the parsers were built on.
C8_ProcessIdempotent ==
    /\ doc = doc0
    /\ \A p \in ParserIds :
          parsers[p].passes >= 1 => view(parsers[p]) = parsers[p].first[1]
    /\ \A p, q \in ParserIds :
          (parsers[p].passes >= 1 /\ parsers[q].passes >= 1) =>
              properties(parsers[p]) = properties(parsers[q])

C8_Witness ==
    /\ parsers["p1"].passes = 2
    /\ parsers["p2"].passes = 1
    /\ Len(doc) = 2
    /\ Len(parsers["p1"].fields) >= 3

\* C9: a read of 'properties' before any process() call throws the
\* resource-not-found error and returns nothing; after a process() call it
\* returns the resource selector, then the operation selectors, then the
\* flattened operation fields.
C9_PropertiesAfterProcess ==
    \A p \in ParserIds :
        parsers[p].lastRead # NotRead =>
            /\ parsers[p].passes = 0 => parsers[p].lastRead = Throw(ResourceNotFound)
            /\ parsers[p].passes >= 1 =>
                  /\ parsers[p].lastRead.error = ""
                  /\ Len(parsers[p].resourceNode) = 1
                  /\ parsers[p].resourceNode[1].name = "resource"
                  /\ parsers[p].lastRead.fields =
                        parsers[p].resourceNode \o parsers[p].operations
                            \o parsers[p].fields

C9_Witness ==
    /\ parsers["p1"].passes >= 1
    /\ parsers["p1"].lastRead.error = ""
    /\ Len(parsers["p1"].operations) = 2
    /\ Len(parsers["p1"].fields) >= 2
    /\ Len(parsers["p1"].lastRead.fields) = 3 + Len(parsers["p1"].fields)
    /\ parsers["p2"].lastRead = Throw(ResourceNotFound)

====
